---- MODULE Spec2Model ----
(***************************************************************************)
(* File service (FastAPI + S3 + CloudFront): the validators, the storage   *)
(* key construction, the S3 gateway and the HTTP handlers of app/main.py.  *)
(*                                                                         *)
(* Strings the code concatenates or scans (filenames, folders, ids, keys)  *)
(* are sequences of one-character strings.  Optional[T] values are records *)
(* [present, val]: None is present = FALSE.                                *)
(***************************************************************************)
EXTENDS Integers, Sequences, FiniteSets, Bags, TLC

VARIABLES
    store,          \* the S3 bucket: storage key -> stored object
    req,            \* the handler invocations waiting at an await (a bag)
    resp,           \* the HTTP response being sent (or none)
    minted,         \* number of uuid4() identifiers handed out so far
    clock,          \* datetime.utcnow()
    putLog,         \* history: key -> what put_object was given, until the key is deleted
    deletedOk,      \* history: ids for which DELETE /files/{id} answered 200
    max_file_size,  \* Settings.max_file_size (MAX_FILE_SIZE of the environment)
    pure            \* one call of a pure function: its inputs and its result

vars == <<store, req, resp, minted, clock, putLog, deletedOk, max_file_size, pure>>

(***************************************************************************)
(* Bounds of the model.                                                    *)
(***************************************************************************)
MaxReq == 2         \* requests in flight at the same time
MaxUploads == 2     \* identifiers uuid4() can hand out
MaxClock == 1       \* the clock runs from 0 to MaxClock
MaxNameLen == 4     \* length of the filenames given to validate_file_type
MaxPartLen == 2     \* length of the ids and folders given to the key construction

(***************************************************************************)
(* Optional values and strings.                                            *)
(***************************************************************************)
NoneStr == [present |-> FALSE, val |-> <<>>]
NoneInt == [present |-> FALSE, val |-> 0]
NoneCT == [present |-> FALSE, val |-> ""]
Some(v) == [present |-> TRUE, val |-> v]

\* Python truthiness of an Optional[str]: None and "" are falsy.
Truthy(o) == o.present /\ o.val # <<>>

SeqsUpTo(S, n) == UNION { [1..k -> S] : k \in 0..n }

UpperChars == <<"A","B","C","D","E","F","G","H","I","J","K","L","M",
                "N","O","P","Q","R","S","T","U","V","W","X","Y","Z">>
LowerChars == <<"a","b","c","d","e","f","g","h","i","j","k","l","m",
                "n","o","p","q","r","s","t","u","v","w","x","y","z">>

lower_char(c) ==
    IF \E i \in 1..26 : UpperChars[i] = c
    THEN LowerChars[CHOOSE i \in 1..26 : UpperChars[i] = c]
    ELSE c

\* str.lower()
lower(s) == [i \in 1..Len(s) |-> lower_char(s[i])]

\* str.rfind(c), 1-based; 0 when c does not occur (Python: -1).
rfind(s, c) ==
    IF \E i \in 1..Len(s) : s[i] = c
    THEN CHOOSE i \in 1..Len(s) : s[i] = c /\ \A j \in (i+1)..Len(s) : s[j] # c
    ELSE 0

\* The while loop of os.path.splitext: skip the leading dots of the last
\* path component; the extension starts at dotIndex only when some other
\* character comes before it.
RECURSIVE splitext_scan(_, _, _)
splitext_scan(p, filenameIndex, dotIndex) ==
    IF filenameIndex < dotIndex
    THEN IF p[filenameIndex] # "."
         THEN <<SubSeq(p, 1, dotIndex - 1), SubSeq(p, dotIndex, Len(p))>>
         ELSE splitext_scan(p, filenameIndex + 1, dotIndex)
    ELSE <<p, <<>>>>

\* A splitext that cuts at the last dot wherever it stands.
splitext_all_dots(p) ==
    LET dotIndex == rfind(p, ".")
    IN  IF dotIndex > 0
        THEN <<SubSeq(p, 1, dotIndex - 1), SubSeq(p, dotIndex, Len(p))>>
        ELSE <<p, <<>>>>

\* os.path.splitext(p) -> (root, ext), as posixpath computes it.
splitext(p) ==
    LET sepIndex == rfind(p, "/")
        dotIndex == rfind(p, ".")
    IN  IF dotIndex > sepIndex
        THEN splitext_scan(p, sepIndex + 1, dotIndex)
        ELSE <<p, <<>>>>

(***************************************************************************)
(* app/utils/validators.py                                                 *)
(***************************************************************************)
ALLOWED_EXTENSIONS ==
    [ image |->
        { <<".","j","p","g">>, <<".","j","p","e","g">>, <<".","p","n","g">>,
          <<".","g","i","f">>, <<".","b","m","p">>, <<".","w","e","b","p">>,
          <<".","s","v","g">> },
      document |->
        { <<".","p","d","f">>, <<".","d","o","c">>, <<".","d","o","c","x">>,
          <<".","t","x","t">>, <<".","r","t","f">>, <<".","o","d","t">> },
      spreadsheet |->
        { <<".","x","l","s">>, <<".","x","l","s","x">>, <<".","c","s","v">>,
          <<".","o","d","s">> },
      presentation |->
        { <<".","p","p","t">>, <<".","p","p","t","x">>, <<".","o","d","p">> },
      archive |->
        { <<".","z","i","p">>, <<".","r","a","r">>, <<".","7","z">>,
          <<".","t","a","r">>, <<".","g","z">> },
      video |->
        { <<".","m","p","4">>, <<".","a","v","i">>, <<".","m","o","v">>,
          <<".","w","m","v">>, <<".","f","l","v">>, <<".","w","e","b","m">> },
      audio |->
        { <<".","m","p","3">>, <<".","w","a","v">>, <<".","f","l","a","c">>,
          <<".","a","a","c">>, <<".","o","g","g">> },
      code |->
        { <<".","p","y">>, <<".","j","s">>, <<".","h","t","m","l">>,
          <<".","c","s","s">>, <<".","j","s","o","n">>, <<".","x","m","l">>,
          <<".","y","a","m","l">>, <<".","y","m","l">> } ]

MAX_FILE_SIZE == 100 * 1024 * 1024

validate_file_type(filename) ==
    IF ~Truthy(filename)
    THEN FALSE
    ELSE LET ext == splitext(lower(filename.val))[2]
         IN  \E category \in DOMAIN ALLOWED_EXTENSIONS :
                 ext \in ALLOWED_EXTENSIONS[category]

validate_file_size(file_size) ==
    IF ~file_size.present
    THEN FALSE
    ELSE file_size.val <= MAX_FILE_SIZE

(***************************************************************************)
(* app/utils/config.py                                                     *)
(***************************************************************************)
DefaultMaxFileSize == 104857600

\* Values of the MAX_FILE_SIZE environment variable the service is started
\* with: unset (the default) or a smaller limit.
MaxFileSizeEnv == {DefaultMaxFileSize, DefaultMaxFileSize \div 2}

(***************************************************************************)
(* Storage keys.                                                           *)
(***************************************************************************)
FilesPrefix == <<"f","i","l","e","s","/">>

\* A key construction that tests `folder is not None`.
upload_s3_key_not_none(file_id, folder) ==
    IF folder.present
    THEN folder.val \o <<"/">> \o file_id
    ELSE FilesPrefix \o file_id

\* S3Service.upload_file: the key an upload writes (`if folder:`).
upload_s3_key(file_id, folder) ==
    IF Truthy(folder)
    THEN folder.val \o <<"/">> \o file_id
    ELSE FilesPrefix \o file_id

\* download_file, delete_file, get_file_metadata: the key a lookup reads.
lookup_s3_key(file_id) == FilesPrefix \o file_id

(***************************************************************************)
(* Identifiers.  uuid.uuid4() is modelled as a source of fresh tokens: the *)
(* n-th call returns the n-th identifier.                                  *)
(***************************************************************************)
IdChars == <<"1","2","3","4","5","6","7","8","9">>

\* An identifier source that repeats itself.
uuid4_repeating(n) == <<IdChars[1]>>

uuid4(n) == <<IdChars[n + 1]>>

\* The file_id path parameters a client may send: every identifier the
\* service can hand out, minted yet or not.
IdPool == { <<IdChars[n]>> : n \in 1..MaxUploads }

(***************************************************************************)
(* The S3 client (boto3).  A call either takes effect or fails with the    *)
(* injected fault; head_object of an absent key is a ClientError 404.      *)
(***************************************************************************)
Faults == {"none", "ClientError", "NoCredentialsError"}
NoFaults == {"none"}

EmptyMeta == [original_name |-> <<>>, file_id |-> <<>>, uploaded_at |-> 0]
EmptyObj == [ContentType |-> "", ContentLength |-> 0, LastModified |-> 0,
             Metadata |-> EmptyMeta]

head_object(s, key, fault) ==
    CASE fault = "NoCredentialsError" ->
            [err |-> "NoCredentialsError", code |-> "", obj |-> EmptyObj]
      [] fault = "ClientError" ->
            [err |-> "ClientError", code |-> "403", obj |-> EmptyObj]
      [] OTHER ->
            IF key \in DOMAIN s
            THEN [err |-> "none", code |-> "", obj |-> s[key]]
            ELSE [err |-> "ClientError", code |-> "404", obj |-> EmptyObj]

\* A put that drops the user metadata.
put_object_no_metadata(s, key, len, contentType, metadata, now) ==
    [k \in DOMAIN s \cup {key} |->
        IF k = key
        THEN [ContentType |-> contentType, ContentLength |-> len,
              LastModified |-> now, Metadata |-> EmptyMeta]
        ELSE s[k]]

put_object(s, key, len, contentType, metadata, now) ==
    [k \in DOMAIN s \cup {key} |->
        IF k = key
        THEN [ContentType |-> contentType, ContentLength |-> len,
              LastModified |-> now, Metadata |-> metadata]
        ELSE s[k]]

delete_object(s, key) == [k \in DOMAIN s \ {key} |-> s[k]]

(***************************************************************************)
(* app/services/s3_service.py: what each gateway call returns or raises.   *)
(***************************************************************************)
EmptyBody == [s3_key |-> <<>>, content_type |-> "", size |-> 0,
              last_modified |-> 0, metadata |-> EmptyMeta]

Return(v) == [kind |-> "return", val |-> v, exc |-> "none"]
Raise(e) == [kind |-> "raise", val |-> FALSE, exc |-> e]
ReturnBody(b) == [kind |-> "return", body |-> b, exc |-> "none"]
RaiseBody(e) == [kind |-> "raise", body |-> EmptyBody, exc |-> e]

\* S3Service.file_exists: only ClientError is caught.
file_exists(s, s3_key, fault) ==
    LET h == head_object(s, s3_key, fault)
    IN  CASE h.err = "none" -> Return(TRUE)
          [] h.err = "ClientError" ->
                IF h.code = "404" THEN Return(FALSE) ELSE Raise("Exception")
          [] OTHER -> Raise(h.err)

\* S3Service.get_file_metadata: every ClientError, 404 included, becomes
\* Exception("Failed to get file metadata").
get_file_metadata(s, s3_key, fault) ==
    LET h == head_object(s, s3_key, fault)
    IN  CASE h.err = "none" ->
                ReturnBody([s3_key |-> s3_key,
                            content_type |-> h.obj.ContentType,
                            size |-> h.obj.ContentLength,
                            last_modified |-> h.obj.LastModified,
                            metadata |-> h.obj.Metadata])
          [] h.err = "ClientError" -> RaiseBody("Exception")
          [] OTHER -> RaiseBody(h.err)

(***************************************************************************)
(* Requests and responses.  req holds the handlers that are waiting at an  *)
(* await, each with its local variables; two requests with equal locals    *)
(* are two copies in the bag.  A handler that answers puts its response in *)
(* resp and leaves req; Deliver sends the response.                        *)
(***************************************************************************)
\* afterDel is history: for a lookup, whether a DELETE of its id had already
\* answered 200 when its first backend call was made; for an upload,
\* whether any DELETE had answered 200 when its id was minted.
Idle == [kind |-> "idle", file_id |-> <<>>, filename |-> NoneStr,
         size |-> NoneInt, uploaded_at |-> 0, afterDel |-> FALSE]

Running == BagToSet(req)

\* Room for one more request, and no response waiting to be sent.
CanStart == resp.kind = "none" /\ BagCardinality(req) < MaxReq

CanStep(q) == resp.kind = "none" /\ q \in Running

Enter(q) == req (+) SetToBag({q})
Leave(q) == req (-) SetToBag({q})

NoResp == [kind |-> "none", status |-> 0, file_id |-> <<>>,
           filename |-> NoneStr, size |-> NoneInt, s3_key |-> <<>>,
           uploaded_at |-> 0, afterDel |-> FALSE, body |-> EmptyBody]

\* The inputs of the modelled uploads.
UploadNames == { NoneStr, Some(<<"a",".","P","Y">>), Some(<<"a",".","e","x","e">>) }
UploadSizes == { NoneInt, Some(0), Some(MAX_FILE_SIZE + 1) }
UploadFolders == { NoneStr, Some(<<>>), Some(<<"d">>) }
UploadContentTypes == { NoneCT, Some("text/plain") }

(***************************************************************************)
(* POST /upload (main.py upload_file, S3Service.upload_file).              *)
(***************************************************************************)

\* A gate without the size check.
upload_check_type_only(filename, size) ==
    IF ~validate_file_type(filename) THEN "File type not allowed" ELSE "ok"

\* main.py 62-67: the two checks, in order.
upload_check(filename, size) ==
    IF ~validate_file_type(filename) THEN "File type not allowed"
    ELSE IF ~validate_file_size(size) THEN "File size exceeds limit"
    ELSE "ok"

\* main.py 105-107: the status answered when HTTPException(status) is
\* raised inside the handler's try block.  HTTPException is an Exception
\* and `except Exception` is the handler's only clause.
upload_raised(status) == 500

\* Validation, uuid4(), FileMetadata(uploaded_at = utcnow()): everything up
\* to `await file.read()`.
upload_validate ==
    /\ CanStart
    /\ \E filename \in UploadNames, size \in UploadSizes :
         IF upload_check(filename, size) # "ok"
         THEN /\ resp' = [NoResp EXCEPT !.kind = "upload",
                                        !.status = upload_raised(400),
                                        !.filename = filename, !.size = size]
              /\ UNCHANGED <<req, minted>>
         ELSE /\ minted < MaxUploads
              /\ req' = Enter([Idle EXCEPT !.kind = "upload",
                                            !.file_id = uuid4(minted),
                                            !.filename = filename,
                                            !.size = size,
                                            !.uploaded_at = clock,
                                            !.afterDel = deletedOk # {}])
              /\ minted' = minted + 1
              /\ resp' = NoResp
    /\ UNCHANGED <<store, clock, putLog, deletedOk, max_file_size, pure>>

\* S3Service.upload_file from the return of `await file.read()`: utcnow(),
\* put_object, and the handler's response.  Nothing awaits between the read
\* and the put.  A failed read raises before put_object is reached; the
\* gateway's `except Exception` re-raises and the handler answers 500.
\* The folder and the content type are inputs of the request that nothing
\* acts on before this point, so they are drawn here.  boto3 refuses
\* ContentType = None before sending anything.
upload_store(q, F) ==
    /\ CanStep(q) /\ q.kind = "upload"
    /\ \E folder \in UploadFolders, ct \in UploadContentTypes, fault \in F,
          read \in IF F = NoFaults THEN {"ok"} ELSE {"ok", "error"} :
         LET s3_key == upload_s3_key(q.file_id, folder)
             metadata == [original_name |-> q.filename.val,
                          file_id |-> q.file_id,
                          uploaded_at |-> clock]
             answer == [NoResp EXCEPT !.kind = "upload",
                                      !.file_id = q.file_id,
                                      !.filename = q.filename,
                                      !.size = q.size]
         IN  IF read = "ok" /\ ct.present /\ fault = "none"
             THEN /\ store' = put_object(store, s3_key, q.size.val,
                                         ct.val, metadata, clock)
                  /\ putLog' = [k \in DOMAIN putLog \cup {s3_key} |->
                                  IF k = s3_key
                                  THEN [contentType |-> ct.val,
                                        metadata |-> metadata]
                                  ELSE putLog[k]]
                  /\ resp' = [answer EXCEPT !.status = 200,
                                            !.s3_key = s3_key,
                                            !.uploaded_at = q.uploaded_at]
             ELSE /\ resp' = [answer EXCEPT !.status = 500]
                  /\ UNCHANGED <<store, putLog>>
    /\ req' = Leave(q)
    /\ UNCHANGED <<minted, clock, deletedOk, max_file_size, pure>>

(***************************************************************************)
(* GET /download/{file_id}: one backend call.                              *)
(***************************************************************************)
LookupStatus(e, found) ==
    IF e.kind = "raise" THEN 500 ELSE IF e.val THEN found ELSE 404

LookupResp(kind, file_id, status) ==
    [NoResp EXCEPT !.kind = kind, !.status = status, !.file_id = file_id,
                   !.afterDel = file_id \in deletedOk]

download_file(F) ==
    /\ CanStart
    /\ \E file_id \in IdPool, fault \in F :
         LET s3_key == lookup_s3_key(file_id)
             e == file_exists(store, s3_key, fault)
         IN  resp' = LookupResp("download", file_id, LookupStatus(e, 307))
    /\ UNCHANGED <<store, req, minted, clock, putLog, deletedOk,
                   max_file_size, pure>>

(***************************************************************************)
(* DELETE /files/{file_id}: file_exists, then delete_object.               *)
(***************************************************************************)
delete_exists(F) ==
    /\ CanStart
    /\ \E file_id \in IdPool, fault \in F :
         LET s3_key == lookup_s3_key(file_id)
             e == file_exists(store, s3_key, fault)
         IN  IF e.kind = "return" /\ e.val
             THEN /\ req' = Enter([Idle EXCEPT !.kind = "delete",
                                                !.file_id = file_id,
                                                !.afterDel = file_id \in deletedOk])
                  /\ resp' = NoResp
             ELSE /\ resp' = LookupResp("delete", file_id, LookupStatus(e, 200))
                  /\ UNCHANGED req
    /\ UNCHANGED <<store, minted, clock, putLog, deletedOk, max_file_size, pure>>

\* S3Service.delete_file and the handler's response.  Only ClientError is
\* caught by the gateway; either way a failure answers 500.
delete_file(q, F) ==
    /\ CanStep(q) /\ q.kind = "delete"
    /\ \E fault \in F :
         LET s3_key == lookup_s3_key(q.file_id)
             answer == [NoResp EXCEPT !.kind = "delete",
                                      !.file_id = q.file_id,
                                      !.afterDel = q.afterDel]
         IN  IF fault = "none"
             THEN /\ store' = delete_object(store, s3_key)
                  /\ deletedOk' = deletedOk \cup {q.file_id}
                  /\ putLog' = [k \in DOMAIN putLog \ {s3_key} |-> putLog[k]]
                  /\ resp' = [answer EXCEPT !.status = 200]
             ELSE /\ resp' = [answer EXCEPT !.status = 500]
                  /\ UNCHANGED <<store, deletedOk, putLog>>
    /\ req' = Leave(q)
    /\ UNCHANGED <<minted, clock, max_file_size, pure>>

(***************************************************************************)
(* GET /files/{file_id}/metadata: file_exists, then a second head_object.  *)
(***************************************************************************)
metadata_exists(F) ==
    /\ CanStart
    /\ \E file_id \in IdPool, fault \in F :
         LET s3_key == lookup_s3_key(file_id)
             e == file_exists(store, s3_key, fault)
         IN  IF e.kind = "return" /\ e.val
             THEN /\ req' = Enter([Idle EXCEPT !.kind = "metadata",
                                                !.file_id = file_id,
                                                !.afterDel = file_id \in deletedOk])
                  /\ resp' = NoResp
             ELSE /\ resp' = LookupResp("metadata", file_id, LookupStatus(e, 200))
                  /\ UNCHANGED req
    /\ UNCHANGED <<store, minted, clock, putLog, deletedOk, max_file_size, pure>>

metadata_head(q, F) ==
    /\ CanStep(q) /\ q.kind = "metadata"
    /\ \E fault \in F :
         LET s3_key == lookup_s3_key(q.file_id)
             m == get_file_metadata(store, s3_key, fault)
         IN  resp' = [NoResp EXCEPT !.kind = "metadata",
                                    !.status = IF m.kind = "return" THEN 200 ELSE 500,
                                    !.file_id = q.file_id,
                                    !.afterDel = q.afterDel,
                                    !.body = m.body]
    /\ req' = Leave(q)
    /\ UNCHANGED <<store, minted, clock, putLog, deletedOk, max_file_size, pure>>

\* The response goes out.
Deliver ==
    /\ resp.kind # "none"
    /\ resp' = NoResp
    /\ UNCHANGED <<store, req, minted, clock, putLog, deletedOk,
                   max_file_size, pure>>

\* Time passes.
Tick ==
    /\ resp.kind = "none"
    /\ clock < MaxClock
    /\ clock' = clock + 1
    /\ UNCHANGED <<store, req, resp, minted, putLog, deletedOk,
                   max_file_size, pure>>

(***************************************************************************)
(* The service.                                                            *)
(***************************************************************************)
\* No pure call under way.
PureIdle == [fn |-> "none", done |-> TRUE, filename |-> NoneStr,
             size |-> NoneInt, id1 |-> <<>>, id2 |-> <<>>, folder |-> NoneStr,
             stored |-> FALSE, fault |-> "none",
             allowed |-> FALSE, key1 |-> <<>>, key2 |-> <<>>,
             outcome |-> "none"]

Init ==
    /\ store = <<>>
    /\ req = EmptyBag
    /\ resp = NoResp
    /\ minted = 0
    /\ clock = 0
    /\ putLog = <<>>
    /\ deletedOk = {}
    /\ max_file_size = DefaultMaxFileSize
    /\ pure = PureIdle

Step(F) ==
    \/ upload_validate
    \/ \E q \in Running : upload_store(q, F)
    \/ download_file(F)
    \/ delete_exists(F)
    \/ \E q \in Running : delete_file(q, F)
    \/ metadata_exists(F)
    \/ \E q \in Running : metadata_head(q, F)
    \/ Deliver
    \/ Tick

Next == Step(Faults)

Spec == Init /\ [][Next]_vars

\* The same service in front of a backend that never fails (a head_object
\* of an absent key still answers 404) and with request bodies that always
\* arrive whole.
NextNoFault == Step(NoFaults)

SpecNoFault == Init /\ [][NextNoFault]_vars

(***************************************************************************)
(* The validators, the key construction and file_exists as functions: one  *)
(* call, its inputs drawn in the initial state, its result kept in pure.   *)
(***************************************************************************)
NameChars == {"p", "Y", ".", "/"}
PartChars == {"1", "2"}
FolderChars == {"d", "/"}

TypeCalls ==
    { [PureIdle EXCEPT !.fn = "validate_file_type", !.done = FALSE,
                       !.filename = f] :
        f \in {NoneStr} \cup { Some(n) : n \in SeqsUpTo(NameChars, MaxNameLen) } }

SizeCalls ==
    { [PureIdle EXCEPT !.fn = "validate_file_size", !.done = FALSE,
                       !.size = z] :
        z \in {NoneInt} \cup
              { Some(v) : v \in {0, 1} \cup
                    UNION { {m - 1, m, m + 1} : m \in MaxFileSizeEnv \cup {MAX_FILE_SIZE} } } }

KeyCalls ==
    { [PureIdle EXCEPT !.fn = "upload_s3_key", !.done = FALSE,
                       !.id1 = a, !.id2 = b, !.folder = f] :
        a \in SeqsUpTo(PartChars, MaxPartLen) \ {<<>>},
        b \in SeqsUpTo(PartChars, MaxPartLen) \ {<<>>},
        f \in {NoneStr} \cup { Some(d) : d \in SeqsUpTo(FolderChars, MaxPartLen) } }

ExistsCalls ==
    { [PureIdle EXCEPT !.fn = "file_exists", !.done = FALSE,
                       !.id1 = a, !.stored = b, !.fault = f] :
        a \in IdPool, b \in BOOLEAN, f \in Faults }

InitPure ==
    /\ store = <<>>
    /\ req = EmptyBag
    /\ resp = NoResp
    /\ minted = 0
    /\ clock = 0
    /\ putLog = <<>>
    /\ deletedOk = {}
    /\ max_file_size \in MaxFileSizeEnv
    /\ pure \in TypeCalls \cup SizeCalls \cup KeyCalls \cup ExistsCalls

Unchanged == UNCHANGED <<store, req, resp, minted, clock, putLog, deletedOk,
                         max_file_size>>

call_validate_file_type ==
    /\ pure.fn = "validate_file_type" /\ ~pure.done
    /\ pure' = [pure EXCEPT !.done = TRUE,
                            !.allowed = validate_file_type(pure.filename)]
    /\ Unchanged

call_validate_file_size ==
    /\ pure.fn = "validate_file_size" /\ ~pure.done
    /\ pure' = [pure EXCEPT !.done = TRUE,
                            !.allowed = validate_file_size(pure.size)]
    /\ Unchanged

call_upload_s3_key ==
    /\ pure.fn = "upload_s3_key" /\ ~pure.done
    /\ pure' = [pure EXCEPT !.done = TRUE,
                            !.key1 = upload_s3_key(pure.id1, pure.folder),
                            !.key2 = upload_s3_key(pure.id2, pure.folder)]
    /\ Unchanged

\* file_exists on the key of id1, in a bucket that holds it or not.
call_file_exists ==
    /\ pure.fn = "file_exists" /\ ~pure.done
    /\ LET key == lookup_s3_key(pure.id1)
           bucket == IF pure.stored
                     THEN put_object(<<>>, key, 0, "text/plain", EmptyMeta, 0)
                     ELSE <<>>
           e == file_exists(bucket, key, pure.fault)
       IN  pure' = [pure EXCEPT !.done = TRUE,
                                !.outcome = IF e.kind = "raise" THEN e.exc
                                            ELSE IF e.val THEN "True"
                                            ELSE "False"]
    /\ Unchanged

NextPure ==
    \/ call_validate_file_type
    \/ call_validate_file_size
    \/ call_upload_s3_key
    \/ call_file_exists

SpecPure == InitPure /\ [][NextPure]_vars

(***************************************************************************)
(* Properties.                                                             *)
(***************************************************************************)
Lookups == {"download", "delete", "metadata"}

\* C1: a POST /upload whose filename fails the type check or whose size
\* fails the size check is answered 400, whatever the store holds.
C1_InvalidUploadAnswers400 ==
    (resp.kind = "upload"
        /\ (~validate_file_type(resp.filename) \/ ~validate_file_size(resp.size)))
    => resp.status = 400

\* C2: after a successful upload, with any folder, and before any delete,
\* a download, metadata or delete request for the returned file_id is
\* never answered 404 (the lookups derive the key the upload wrote).
C2_LookupFindsUploaded ==
    (resp.kind \in Lookups
        /\ \E k \in DOMAIN putLog : putLog[k].metadata.file_id = resp.file_id)
    => resp.status # 404

\* C3: with a backend that returns no error other than not-found, a
\* GET /files/{id}/metadata that races a DELETE of the same id ends with
\* 200 or 404, never 500.
C3_MetadataNever500 ==
    resp.kind = "metadata" => resp.status \in {200, 404}

\* C4: with a fault-free backend, once DELETE /files/{id} has answered 200
\* every later download, metadata or delete request for that id is answered
\* 404, and no later upload is given that id.
C4_DeletedStaysGone ==
    /\ (resp.kind \in Lookups /\ resp.afterDel) => resp.status = 404
    /\ \A q \in Running : q.kind = "upload" => q.file_id \notin deletedOk
    /\ (resp.kind = "upload" /\ resp.status = 200) => resp.file_id \notin deletedOk

C4_Witness ==
    /\ resp.kind \in Lookups /\ resp.afterDel /\ resp.status = 404
    /\ \E q \in Running : q.kind = "upload" /\ q.afterDel

\* C5: an object is written only by the store step of an upload that
\* passed the type check and the size check, and that step answers 200 for
\* the key it wrote; an upload answered anything else (rejected by
\* validation, body read failed, put failed) leaves the stored objects as
\* they were.
C5_PutOnlyAfterChecksAndRead ==
    [][ /\ (store' # store /\ ~(DOMAIN store' \subseteq DOMAIN store))
           => \E q \in Running :
                 /\ q.kind = "upload"
                 /\ validate_file_type(q.filename)
                 /\ validate_file_size(q.size)
                 /\ resp'.kind = "upload" /\ resp'.status = 200
                 /\ resp'.file_id = q.file_id
                 /\ DOMAIN store' = DOMAIN store \cup {resp'.s3_key}
        /\ (resp'.kind = "upload" /\ resp'.status # 200 /\ resp.kind = "none")
           => store' = store
      ]_vars

C5_Witness ==
    /\ resp.kind = "upload" /\ resp.status = 200
    /\ resp.s3_key \in DOMAIN store

\* C6: for every key written by a successful put and not deleted since,
\* get_file_metadata returns the original_name, file_id and uploaded_at that
\* put was given, and the content type given at upload; a metadata request
\* answered 200 carries the same.
C6_MetadataRoundTrip ==
    /\ \A k \in DOMAIN putLog :
         LET m == get_file_metadata(store, k, "none")
         IN  /\ m.kind = "return"
             /\ m.body.metadata = putLog[k].metadata
             /\ m.body.content_type = putLog[k].contentType
    /\ (resp.kind = "metadata" /\ resp.status = 200)
       => LET k == lookup_s3_key(resp.file_id)
          IN  /\ k \in DOMAIN putLog
              /\ resp.body.metadata = putLog[k].metadata
              /\ resp.body.content_type = putLog[k].contentType

C6_Witness ==
    /\ resp.kind = "metadata" /\ resp.status = 200
    /\ resp.body.metadata.uploaded_at > 0
    /\ \E k \in DOMAIN putLog : k # lookup_s3_key(putLog[k].metadata.file_id)

\* C7: file_exists returns True when head_object succeeds, False when the
\* backend answers not-found, and for every other backend error, missing
\* credentials included, raises the gateway's own exception.
C7_ExistsMapsEveryBackendError ==
    (pure.fn = "file_exists" /\ pure.done)
    => pure.outcome =
         IF pure.fault = "none"
         THEN (IF pure.stored THEN "True" ELSE "False")
         ELSE "Exception"

\* C8 as stated: keys of distinct identities differ; for a supplied folder
\* the key is folder + "/" + identity, for no folder "files/" + identity.
C8_KeyUsesSuppliedFolder ==
    (pure.fn = "upload_s3_key" /\ pure.done)
    => /\ pure.id1 # pure.id2 => pure.key1 # pure.key2
       /\ pure.key1 = IF pure.folder.present
                      THEN pure.folder.val \o <<"/">> \o pure.id1
                      ELSE FilesPrefix \o pure.id1

\* C8 amended: keys of distinct identities differ; for a supplied non-empty
\* folder the key is folder + "/" + identity; for no folder or an empty
\* folder it is "files/" + identity.
C8_KeyUsesNonEmptyFolder ==
    (pure.fn = "upload_s3_key" /\ pure.done)
    => /\ pure.id1 # pure.id2 => pure.key1 # pure.key2
       /\ pure.key1 = IF pure.folder.present /\ Len(pure.folder.val) > 0
                      THEN pure.folder.val \o <<"/">> \o pure.id1
                      ELSE FilesPrefix \o pure.id1

C8_Witness ==
    /\ pure.fn = "upload_s3_key" /\ pure.done
    /\ pure.folder.present /\ pure.folder.val = <<>>
    /\ pure.id1 # pure.id2
    /\ pure.key1 = FilesPrefix \o pure.id1

\* C9: with max the configured maximum file size, validate_file_size(s) is
\* true for 0 <= s <= max and false for s > max and for s = None.
C9_SizeAllowedUpToConfiguredMax ==
    (pure.fn = "validate_file_size" /\ pure.done)
    => pure.allowed = (pure.size.present /\ pure.size.val <= max_file_size)

AllowedExtensions ==
    UNION { ALLOWED_EXTENSIONS[c] : c \in DOMAIN ALLOWED_EXTENSIONS }

\* d is the last "." of n and the lowercased text after it is an extension
\* of the table.
ExtensionAt(n, d) ==
    /\ n[d] = "."
    /\ \A j \in (d + 1)..Len(n) : n[j] # "."
    /\ <<".">> \o SubSeq(lower(n), d + 1, Len(n)) \in AllowedExtensions

\* C10 as stated: validate_file_type is true exactly when the lowercased
\* substring after the last "." of the filename is an extension of the
\* table.
C10_AllowedIffSuffixInTable ==
    (pure.fn = "validate_file_type" /\ pure.done)
    => pure.allowed =
         (/\ pure.filename.present
          /\ \E d \in 1..Len(pure.filename.val) :
                 ExtensionAt(pure.filename.val, d))

\* C10 amended: validate_file_type is true exactly when the lowercased
\* substring after the last "." is an extension of the table and that "."
\* is preceded, within the last "/"-separated component of the filename, by
\* a character other than ".".
C10_AllowedIffSuffixOfNamedFile ==
    (pure.fn = "validate_file_type" /\ pure.done)
    => pure.allowed =
         (/\ pure.filename.present
          /\ \E d \in 1..Len(pure.filename.val) :
               /\ ExtensionAt(pure.filename.val, d)
               /\ \E i \in 1..(d - 1) :
                    /\ pure.filename.val[i] # "."
                    /\ \A j \in i..(d - 1) : pure.filename.val[j] # "/")

C10_Witness ==
    /\ pure.fn = "validate_file_type" /\ pure.done
    /\ pure.filename = Some(<<".", "p", "Y">>)
    /\ ~pure.allowed

\* C11: when an upload answers 200, the uploaded_at of the response equals
\* the uploaded_at that get_file_metadata returns for the object it wrote,
\* whether or not the clock moved while the handler waited for the body.
\* The response carries the utcnow() of main.py 79, the object the utcnow()
\* of s3_service.py 50; isoformat() is one-to-one on these readings, so the
\* two texts are equal exactly when the two readings are.
C11_ResponseTimestampIsPersisted ==
    (resp.kind = "upload" /\ resp.status = 200)
    => LET m == get_file_metadata(store, resp.s3_key, "none")
       IN  /\ m.kind = "return"
           /\ resp.uploaded_at = m.body.metadata.uploaded_at

====
